---- MODULE Spec2Model ----
(***************************************************************************)
(* Few-shot regional-bias evaluation pipeline                              *)
(* (src/few_shot_150_examples/deepseek_r1_distill_7b.py).                  *)
(*                                                                         *)
(* Strings are sequences of one-character strings, so that slicing,        *)
(* prefix tests, substring tests and the regular expressions of clean_text *)
(* are computed character by character as Python computes them.            *)
(***************************************************************************)
EXTENDS Integers, Sequences, FiniteSets, TLC

VARIABLES
    pc,           \* position of main(), or of the driver of a pure function
    files,        \* file system: contents of examples_path and test_path
    args,         \* parsed command line (Run Configuration)
    env,          \* "real" Model Runner, or the "stub" of the end-to-end test
    shuffle,      \* pandas' sample(frac=1): random_state -> row order
    examples_df,  \* DataFrame returned by load_datasets
    test_df,      \* DataFrame returned by load_datasets
    model_loaded, \* setup_model returned a model and a tokenizer
    i,            \* loop variable of batch_predict (records finished)
    predictions,  \* list built by batch_predict
    raw_outputs,  \* list built by batch_predict
    sent,         \* prompts handed to predict_with_model, with the record
    faults,       \* what was logged for each record that batch_predict took
    checkpoints,  \* checkpoint CSV files written, by record count
    results,      \* what save_results wrote and returned
    main_error,   \* the exception caught by main(), "" when none
    exit_status,  \* process exit status, -1 while running
    arg,          \* input of the pure function under study
    ret           \* its outputs

vars == <<pc, files, args, env, shuffle, examples_df, test_df, model_loaded,
          i, predictions, raw_outputs, sent, faults, checkpoints, results,
          main_error, exit_status, arg, ret>>

(***************************************************************************)
(* Bounds of the model.                                                    *)
(***************************************************************************)
MaxCleanLen == 6
MaxFragments == 3
MaxLoadRows == 2
MaxPromptExamples == 2
MaxInterval == 3

(***************************************************************************)
(* Characters and Python string primitives.                                *)
(***************************************************************************)
UpperCase ==
    <<"A","B","C","D","E","F","G","H","I","J","K","L","M",
      "N","O","P","Q","R","S","T","U","V","W","X","Y","Z">>

LowerCase ==
    <<"a","b","c","d","e","f","g","h","i","j","k","l","m",
      "n","o","p","q","r","s","t","u","v","w","x","y","z">>

Digits == {"0","1","2","3","4","5","6","7","8","9"}

Whitespace == {" ", "\t", "\n", "\r"}

Range(s) == {s[k] : k \in DOMAIN s}

Min(a, b) == IF a < b THEN a ELSE b

Max(a, b) == IF a > b THEN a ELSE b

\* str.lower() on one character
LowerChar(c) ==
    IF \E k \in DOMAIN UpperCase : UpperCase[k] = c
    THEN LowerCase[CHOOSE k \in DOMAIN UpperCase : UpperCase[k] = c]
    ELSE c

\* str.lower()
RECURSIVE Lower(_)
Lower(s) ==
    IF s = <<>> THEN <<>> ELSE <<LowerChar(Head(s))>> \o Lower(Tail(s))

\* \s of the re module
IsSpace(c) == c \in Whitespace

\* [a-zA-Z0-9] of the re module
IsAlnum(c) == c \in Range(UpperCase) \cup Range(LowerCase) \cup Digits

\* s[k:] (k counted from 0)
From(s, k) == SubSeq(s, k + 1, Len(s))

\* s[:k]
UpTo(s, k) == SubSeq(s, 1, Min(k, Len(s)))

\* s[-k:]
LastChars(s, k) == SubSeq(s, Max(1, Len(s) - k + 1), Len(s))

\* s.startswith(p)
StartsWith(s, p) == Len(p) <= Len(s) /\ SubSeq(s, 1, Len(p)) = p

\* sub in s
Contains(s, sub) ==
    \E k \in 1..(Len(s) - Len(sub) + 1) : SubSeq(s, k, k + Len(sub) - 1) = sub

\* s.lstrip()
RECURSIVE LStrip(_)
LStrip(s) ==
    IF s # <<>> /\ IsSpace(Head(s)) THEN LStrip(Tail(s)) ELSE s

\* s.rstrip()
RECURSIVE RStrip(_)
RStrip(s) ==
    IF s # <<>> /\ IsSpace(s[Len(s)])
    THEN RStrip(SubSeq(s, 1, Len(s) - 1))
    ELSE s

\* s.strip()
Strip(s) == LStrip(RStrip(s))

(***************************************************************************)
(* clean_text                                                              *)
(***************************************************************************)
HTTP == <<"h","t","t","p">>

\* index of the last character of the run of non-whitespace that starts at k
RECURSIVE EndOfRun(_, _)
EndOfRun(s, k) ==
    IF k < Len(s) /\ ~IsSpace(s[k + 1]) THEN EndOfRun(s, k + 1) ELSE k

\* http\S+ matches at position k
UrlAt(s, k) ==
    /\ k + 4 <= Len(s)
    /\ SubSeq(s, k, k + 3) = HTTP
    /\ ~IsSpace(s[k + 4])

\* re.sub(r"http\S+", "", s), scanning from position k
RECURSIVE RemoveUrlsFrom(_, _)
RemoveUrlsFrom(s, k) ==
    IF k > Len(s) THEN <<>>
    ELSE IF UrlAt(s, k) THEN RemoveUrlsFrom(s, EndOfRun(s, k + 4) + 1)
    ELSE <<s[k]>> \o RemoveUrlsFrom(s, k + 1)

RemoveUrls(s) == RemoveUrlsFrom(s, 1)

\* re.sub(r"[^a-zA-Z0-9\s]", "", s)
RemoveSpecial(s) == SelectSeq(s, LAMBDA c : IsAlnum(c) \/ IsSpace(c))

\* re.sub(r"\s+", " ", s)
RECURSIVE CollapseSpaces(_)
CollapseSpaces(s) ==
    IF s = <<>> THEN <<>>
    ELSE IF IsSpace(Head(s))
         THEN <<" ">> \o CollapseSpaces(LStrip(s))
         ELSE <<Head(s)>> \o CollapseSpaces(Tail(s))

clean_text(text) ==
    Strip(CollapseSpaces(RemoveSpecial(RemoveUrls(Lower(text)))))

(***************************************************************************)
(* create_few_shot_prompt                                                  *)
(***************************************************************************)
PromptIntro ==
    <<"Y","o","u"," ","a","r","e"," ","a","n"," ","e","x","p","e","r","t",
      " ","i","n"," ","i","d","e","n","t","i","f","y","i","n","g"," ","r",
      "e","g","i","o","n","a","l"," ","b","i","a","s","e","s"," ","i","n",
      " ","c","o","m","m","e","n","t","s"," ","a","b","o","u","t"," ","I",
      "n","d","i","a","n"," ","s","t","a","t","e","s"," ","a","n","d"," ",
      "r","e","g","i","o","n","s","."," ">>

PromptTask ==
    <<"T","a","s","k",":"," ","C","l","a","s","s","i","f","y"," ","i","f",
      " ","t","h","e"," ","c","o","m","m","e","n","t"," ","c","o","n","t",
      "a","i","n","s"," ","r","e","g","i","o","n","a","l"," ","b","i","a",
      "s"," ","r","e","l","a","t","e","d"," ","t","o"," ","I","n","d","i",
      "a","n"," ","s","t","a","t","e","s"," ","o","r"," ","r","e","g","i",
      "o","n","s",".","\n","\n">>

PromptInstructions ==
    <<"I","n","s","t","r","u","c","t","i","o","n","s",":","\n">>

PromptRegional ==
    <<"-"," ","R","e","g","i","o","n","a","l"," ","B","i","a","s"," ","(",
      "1",")",":"," ","C","o","m","m","e","n","t","s"," ","t","h","a","t",
      " ","c","o","n","t","a","i","n"," ","s","t","e","r","e","o","t","y",
      "p","e","s",","," ","p","r","e","j","u","d","i","c","e","s",","," ",
      "o","r"," ","b","i","a","s","e","s"," ","a","b","o","u","t"," ","s",
      "p","e","c","i","f","i","c"," ","I","n","d","i","a","n"," ","s","t",
      "a","t","e","s"," ","o","r"," ","r","e","g","i","o","n","s",".","\n">>

PromptNonRegional ==
    <<"-"," ","N","o","n","-","R","e","g","i","o","n","a","l"," ","B","i",
      "a","s"," ","(","0",")",":"," ","C","o","m","m","e","n","t","s"," ",
      "t","h","a","t"," ","d","o","n","'","t"," ","c","o","n","t","a","i",
      "n"," ","r","e","g","i","o","n","a","l"," ","s","t","e","r","e","o",
      "t","y","p","e","s"," ","o","r"," ","b","i","a","s","e","s"," ","a",
      "b","o","u","t"," ","I","n","d","i","a","n"," ","s","t","a","t","e",
      "s",".","\n","\n">>

PromptExamples ==
    <<"E","x","a","m","p","l","e","s",":","\n">>

CommentOpen ==
    <<"C","o","m","m","e","n","t",":"," ","\"">>

CommentClose ==
    <<"\"","\n">>

ClassificationLabel ==
    <<"C","l","a","s","s","i","f","i","c","a","t","i","o","n",":"," ">>

PairEnd ==
    <<"\n","\n">>

TargetOpen ==
    <<"N","o","w"," ","c","l","a","s","s","i","f","y"," ","t","h","i","s",
      " ","c","o","m","m","e","n","t",":","\n","\"">>

TargetClose ==
    <<"\"","\n","C","l","a","s","s","i","f","i","c","a","t","i","o","n",":">>

SimplifiedNote ==
    <<"E","x","a","m","p","l","e","s"," ","a","r","e"," ","p","r","o","v",
      "i","d","e","d"," ","s","e","p","a","r","a","t","e","l","y","."," ",
      "B","a","s","e","d"," ","o","n"," ","t","h","e","s","e"," ","i","n",
      "s","t","r","u","c","t","i","o","n","s",":","\n","\n">>

SimplifiedOpen ==
    <<"C","l","a","s","s","i","f","y"," ","t","h","i","s"," ","c","o","m",
      "m","e","n","t",":","\n","\"">>

ErrorPrefix ==
    <<"E","R","R","O","R",":"," ">>

\* the instruction header, the same in both templates
InstructionHeader ==
    PromptIntro \o PromptTask \o PromptInstructions \o PromptRegional
        \o PromptNonRegional

\* 1 if x >= 1 else 0
Binarize(x) == IF x >= 1 THEN 1 ELSE 0

\* f"{classification}"
Digit(b) == IF b = 1 THEN <<"1">> ELSE <<"0">>

\* the two lines that one example row adds to the prompt
ExampleLines(row) ==
    CommentOpen \o row.Cleaned_Comment \o CommentClose
        \o ClassificationLabel \o Digit(Binarize(row.Level_1)) \o PairEnd

\* examples_df.sample(frac=1, random_state=random_seed)
\* the rows of df in the given order of positions
RECURSIVE Reorder(_, _)
Reorder(df, order) ==
    IF order = <<>> THEN <<>>
    ELSE <<df[Head(order)]>> \o Reorder(df, Tail(order))

\* a draw with replacement: the row drawn first fills every position
SampleWithReplacement(df, random_seed) ==
    Reorder(df, [k \in DOMAIN df |-> shuffle[random_seed][1]])

Sample(df, random_seed) == Reorder(df, shuffle[random_seed])

RECURSIVE ExampleBlock(_)
ExampleBlock(rows) ==
    IF rows = <<>> THEN <<>>
    ELSE ExampleLines(Head(rows)) \o ExampleBlock(Tail(rows))

\* f"Now classify this comment:\n\"{comment}\"\nClassification:"
TargetBlock(comment) == TargetOpen \o comment \o TargetClose

create_few_shot_prompt(df, comment, random_seed) ==
    InstructionHeader \o PromptExamples
        \o ExampleBlock(Sample(df, random_seed)) \o TargetBlock(comment)

\* a fallback that shortens the prompt by keeping only the first example
ShortenedPrompt(comment) ==
    InstructionHeader \o PromptExamples
        \o ExampleLines(examples_df[1]) \o TargetBlock(comment)

\* the shorter template of batch_predict
SimplifiedPrompt(comment) ==
    InstructionHeader \o SimplifiedNote
        \o SimplifiedOpen \o comment \o TargetClose

(***************************************************************************)
(* predict_with_model: extraction of the continuation and response parsing *)
(***************************************************************************)
LastPartLen == 50

TruncateLen == 500

RegionalBiasWord == <<"r","e","g","i","o","n","a","l"," ","b","i","a","s">>

BiasWord == <<"b","i","a","s">>

NonRegionalWord == <<"n","o","n","-","r","e","g","i","o","n","a","l">>

NoBiasWord == <<"n","o"," ","b","i","a","s">>

\* generated_text: the model's response after the prompt
ExtractGenerated(prompt, full_output) ==
    IF StartsWith(full_output, prompt)
    THEN Strip(From(full_output, Len(prompt)))
    ELSE Strip(LastChars(full_output, LastPartLen))

\* a slip in the digit test of the tail: "1" wins whenever it is present
ParseResponseDigitFirst(generated_text, full_output) ==
    LET last_part == Lower(LastChars(full_output, LastPartLen))
    IN  IF StartsWith(generated_text, <<"1">>) \/ generated_text = <<"1">>
        THEN 1
        ELSE IF StartsWith(generated_text, <<"0">>) \/ generated_text = <<"0">>
        THEN 0
        ELSE IF Contains(last_part, <<"1">>)
        THEN 1
        ELSE IF Contains(last_part, <<"0">>)
        THEN 0
        ELSE IF Contains(last_part, BiasWord)
        THEN 1
        ELSE 0

\* the word tests in the other order: the negative phrases are tried first
ParseResponseNegativeFirst(generated_text, full_output) ==
    LET last_part == Lower(LastChars(full_output, LastPartLen))
    IN  IF StartsWith(generated_text, <<"1">>) \/ generated_text = <<"1">>
        THEN 1
        ELSE IF StartsWith(generated_text, <<"0">>) \/ generated_text = <<"0">>
        THEN 0
        ELSE IF Contains(last_part, <<"1">>) /\ ~Contains(last_part, <<"0">>)
        THEN 1
        ELSE IF Contains(last_part, <<"0">>) /\ ~Contains(last_part, <<"1">>)
        THEN 0
        ELSE IF Contains(last_part, NonRegionalWord)
                \/ Contains(last_part, NoBiasWord)
        THEN 0
        ELSE IF Contains(last_part, RegionalBiasWord)
                \/ Contains(last_part, BiasWord)
        THEN 1
        ELSE 0

\* the if/elif chain that turns the response into a classification
ParseResponse(generated_text, full_output) ==
    LET last_part == Lower(LastChars(full_output, LastPartLen))
    IN  IF StartsWith(generated_text, <<"1">>) \/ generated_text = <<"1">>
        THEN 1
        ELSE IF StartsWith(generated_text, <<"0">>) \/ generated_text = <<"0">>
        THEN 0
        ELSE IF Contains(last_part, <<"1">>) /\ ~Contains(last_part, <<"0">>)
        THEN 1
        ELSE IF Contains(last_part, <<"0">>) /\ ~Contains(last_part, <<"1">>)
        THEN 0
        ELSE IF Contains(last_part, RegionalBiasWord)
                \/ Contains(last_part, BiasWord)
        THEN 1
        ELSE IF Contains(last_part, NonRegionalWord)
                \/ Contains(last_part, NoBiasWord)
        THEN 0
        ELSE 0

\* predict_with_model whose except branch returns the positive class
predict_with_modelErrorAsOne(prompt, outcome) ==
    IF outcome.kind = "error"
    THEN [prediction |-> 1, raw_output |-> ErrorPrefix \o outcome.message]
    ELSE [prediction |->
              ParseResponse(ExtractGenerated(prompt, outcome.full_output),
                            outcome.full_output),
          raw_output |-> outcome.full_output]

\* What tokenizer + model.generate + tokenizer.decode did for one call:
\* [kind |-> "ok", full_output |-> s] or [kind |-> "error", message |-> s].
predict_with_model(prompt, outcome) ==
    IF outcome.kind = "error"
    THEN [prediction |-> 0, raw_output |-> ErrorPrefix \o outcome.message]
    ELSE [prediction |->
              ParseResponse(ExtractGenerated(prompt, outcome.full_output),
                            outcome.full_output),
          raw_output |-> outcome.full_output]

(***************************************************************************)
(* load_datasets                                                           *)
(***************************************************************************)
\* pd.read_csv: one DataFrame row per line, indexed from 0
read_csv(rows) ==
    [k \in DOMAIN rows |->
        [idx |-> k - 1, Comment |-> rows[k].Comment,
         Level_1 |-> rows[k].Level_1]]

\* the overlap filter without the strip() on either side
RemoveOverlapUnstripped(ex, te) ==
    LET examples_comments == {ex[k].Comment : k \in DOMAIN ex}
        keep(row) == row.Comment \notin examples_comments
    IN  SelectSeq(te, keep)

\* test_df[~test_df['Comment'].str.strip().isin(examples_comments)]
RemoveOverlap(ex, te) ==
    LET examples_comments == {Strip(ex[k].Comment) : k \in DOMAIN ex}
        keep(row) == Strip(row.Comment) \notin examples_comments
    IN  SelectSeq(te, keep)

\* df["Cleaned_Comment"] = df["Comment"].apply(clean_text)
AddCleaned(df) ==
    [k \in DOMAIN df |->
        [idx |-> df[k].idx, Comment |-> df[k].Comment,
         Level_1 |-> df[k].Level_1,
         Cleaned_Comment |-> clean_text(df[k].Comment)]]

\* test_df.head(test_limit) when test_limit is not None and positive;
\* test_limit is {} for None and {n} for the integer n
ApplyLimit(df, test_limit) ==
    IF \E n \in test_limit : n > 0
    THEN UpTo(df, CHOOSE n \in test_limit : TRUE)
    ELSE df

\* load_datasets that goes on to read although a file is missing
LoadDatasetsUnchecked ==
    /\ pc = "load_datasets"
    /\ examples_df' = AddCleaned(read_csv(files.examples.rows))
    /\ test_df' =
           ApplyLimit(AddCleaned(RemoveOverlap(read_csv(files.examples.rows),
                                               read_csv(files.test.rows))),
                      args.test_limit)
    /\ pc' = "setup_model"
    /\ UNCHANGED <<files, args, env, shuffle, model_loaded, i, predictions,
                   raw_outputs, sent, faults, checkpoints, results,
                   main_error, exit_status, arg, ret>>

LoadDatasets ==
    /\ pc = "load_datasets"
    /\ IF ~files.examples.exists \/ ~files.test.exists
       THEN /\ main_error' = "FileNotFoundError"
            /\ pc' = "except"
            /\ UNCHANGED <<examples_df, test_df>>
       ELSE /\ examples_df' = AddCleaned(read_csv(files.examples.rows))
            /\ test_df' =
                   ApplyLimit(
                       AddCleaned(RemoveOverlap(read_csv(files.examples.rows),
                                                read_csv(files.test.rows))),
                       args.test_limit)
            /\ pc' = "setup_model"
            /\ UNCHANGED main_error
    /\ UNCHANGED <<files, args, env, shuffle, model_loaded, i, predictions,
                   raw_outputs, sent, faults, checkpoints, results,
                   exit_status, arg, ret>>

(***************************************************************************)
(* setup_model                                                             *)
(***************************************************************************)
\* Loading the tokenizer or the model may raise; setup_model logs and
\* re-raises.  The stub of the end-to-end test always loads.
SetupModel ==
    /\ pc = "setup_model"
    /\ \E loaded \in (IF env = "stub" THEN {TRUE} ELSE BOOLEAN) :
          IF loaded
          THEN /\ model_loaded' = TRUE
               /\ pc' = "batch_predict"
               /\ UNCHANGED main_error
          ELSE /\ main_error' = "ModelLoadError"
               /\ pc' = "except"
               /\ UNCHANGED model_loaded
    /\ UNCHANGED <<files, args, env, shuffle, examples_df, test_df, i,
                   predictions, raw_outputs, sent, faults, checkpoints,
                   results, exit_status, arg, ret>>

(***************************************************************************)
(* batch_predict                                                           *)
(***************************************************************************)
\* str(e) of an exception raised while building or measuring the prompt
TokenizerMessage ==
    <<"t","o","k","e","n","i","z","e","r"," ","f","a","i","l","e","d">>

\* str(e) of an exception raised inside predict_with_model
GenerateMessage ==
    <<"C","U","D","A"," ","o","u","t"," ","o","f"," ","m","e","m","o","r",
      "y">>

\* str(e) of an exception raised by to_csv
WriteMessage ==
    <<"N","o"," ","s","p","a","c","e"," ","l","e","f","t"," ","o","n"," ",
      "d","e","v","i","c","e">>

\* str(e) of ZeroDivisionError
ZeroDivisionMessage ==
    <<"i","n","t","e","g","e","r"," ","d","i","v","i","s","i","o","n"," ",
      "o","r"," ","m","o","d","u","l","o"," ","b","y"," ","z","e","r","o">>

\* a % b of Python for b # 0: the result takes the sign of b
PyMod(a, b) == IF b > 0 THEN a % b ELSE -((-a) % (-b))

\* tokens.input_ids.shape[1]: the tokenizer is a library; the count is any
\* value around the limit
TokenCounts == {args.max_length, args.max_length + 1}

\* continuations the real model may generate
Continuations == { <<"1">> }

\* decoded outputs of the real Model Runner: the prompt echoed with a
\* continuation, a decoding that does not reproduce the prompt verbatim,
\* or an exception; the stub of the end-to-end test always continues "1"
RunnerOutcomes(prompt) ==
    IF env = "stub"
    THEN {[kind |-> "ok", full_output |-> prompt \o <<"1">>]}
    ELSE {[kind |-> "ok", full_output |-> prompt \o c] : c \in Continuations}
         \cup {[kind |-> "ok",
                full_output |-> UpTo(prompt, Len(prompt) - 1) \o <<" ","0">>]}
         \cup {[kind |-> "error", message |-> GenerateMessage]}

\* exceptions the environment may raise in the try block of one iteration
OuterFaults == IF env = "stub" THEN {"none"}
               ELSE {"none", "before_predict", "checkpoint"}

\* (i + 1) % checkpoint_interval == 0 or i == len(test_comments) - 1
CheckpointDue(n, total, checkpoint_interval) ==
    PyMod(n, checkpoint_interval) = 0 \/ n = total

\* checkpoint_df: the first n records with their predictions
CheckpointRows(n, preds, raws) ==
    [k \in 1..n |->
        [Comment |-> test_df[k].Comment,
         Cleaned_Comment |-> test_df[k].Cleaned_Comment,
         True_Label |-> Binarize(test_df[k].Level_1),
         Predicted |-> preds[k],
         Model_Output |-> UpTo(raws[k], TruncateLen)]]

\* an iteration that stays on the record after a failure and tries it again
BatchStepRetry ==
    /\ pc = "batch_predict"
    /\ i < Len(test_df)
    /\ \E fault \in OuterFaults, input_ids_length \in TokenCounts :
        LET comment == test_df[i + 1].Cleaned_Comment
            full == create_few_shot_prompt(examples_df, comment,
                                           args.random_seed)
            prompt == IF input_ids_length > args.max_length
                      THEN SimplifiedPrompt(comment)
                      ELSE full
        IN  IF fault = "before_predict"
            THEN /\ predictions' = Append(predictions, 0)
                 /\ raw_outputs' =
                        Append(raw_outputs,
                                     ErrorPrefix \o TokenizerMessage)
                 /\ faults' = Append(faults,
                        [record |-> i + 1, predict |-> "not_called",
                         outer |-> "before_predict"])
                 /\ UNCHANGED <<sent, checkpoints>>
            ELSE \E outcome \in RunnerOutcomes(prompt) :
                 LET r == predict_with_model(prompt, outcome)
                     preds == Append(predictions, r.prediction)
                     raws == Append(raw_outputs, r.raw_output)
                     zero == args.checkpoint_interval = 0
                     due == ~zero /\ CheckpointDue(i + 1, Len(test_df),
                                                   args.checkpoint_interval)
                     raised == zero \/ (due /\ fault = "checkpoint")
                     message == IF zero THEN ZeroDivisionMessage
                                ELSE WriteMessage
                 IN  /\ sent' = Append(sent,
                            [record |-> i + 1, tokens |-> input_ids_length,
                             prompt |-> prompt])
                     /\ IF raised
                        THEN /\ predictions' = Append(preds, 0)
                             /\ raw_outputs' =
                                    Append(raws, ErrorPrefix \o message)
                             /\ UNCHANGED checkpoints
                        ELSE /\ predictions' = preds
                             /\ raw_outputs' = raws
                             /\ checkpoints' =
                                    IF due
                                    THEN checkpoints @@
                                         ((i + 1) :>
                                          CheckpointRows(i + 1, preds, raws))
                                    ELSE checkpoints
                     /\ faults' = Append(faults,
                            [record |-> i + 1, predict |-> outcome.kind,
                             outer |-> IF raised THEN "checkpoint"
                                       ELSE "none"])
    /\ i' = LET f == faults'[Len(faults')]
            IN  IF f.predict = "error" \/ f.outer # "none"
                THEN i
                ELSE i + 1
    /\ UNCHANGED <<pc, files, args, env, shuffle, examples_df, test_df,
                   model_loaded, results, main_error, exit_status, arg, ret>>

\* one iteration of the for loop, from the try to the end of the body
BatchStep ==
    /\ pc = "batch_predict"
    /\ i < Len(test_df)
    /\ \E fault \in OuterFaults, input_ids_length \in TokenCounts :
        LET comment == test_df[i + 1].Cleaned_Comment
            full == create_few_shot_prompt(examples_df, comment,
                                           args.random_seed)
            prompt == IF input_ids_length > args.max_length
                      THEN SimplifiedPrompt(comment)
                      ELSE full
        IN  IF fault = "before_predict"
            THEN /\ predictions' = Append(predictions, 0)
                 /\ raw_outputs' =
                        Append(raw_outputs,
                                     ErrorPrefix \o TokenizerMessage)
                 /\ faults' = Append(faults,
                        [record |-> i + 1, predict |-> "not_called",
                         outer |-> "before_predict"])
                 /\ UNCHANGED <<sent, checkpoints>>
            ELSE \E outcome \in RunnerOutcomes(prompt) :
                 LET r == predict_with_model(prompt, outcome)
                     preds == Append(predictions, r.prediction)
                     raws == Append(raw_outputs, r.raw_output)
                     zero == args.checkpoint_interval = 0
                     due == ~zero /\ CheckpointDue(i + 1, Len(test_df),
                                                   args.checkpoint_interval)
                     raised == zero \/ (due /\ fault = "checkpoint")
                     message == IF zero THEN ZeroDivisionMessage
                                ELSE WriteMessage
                 IN  /\ sent' = Append(sent,
                            [record |-> i + 1, tokens |-> input_ids_length,
                             prompt |-> prompt])
                     /\ IF raised
                        THEN /\ predictions' = Append(preds, 0)
                             /\ raw_outputs' =
                                    Append(raws, ErrorPrefix \o message)
                             /\ UNCHANGED checkpoints
                        ELSE /\ predictions' = preds
                             /\ raw_outputs' = raws
                             /\ checkpoints' =
                                    IF due
                                    THEN checkpoints @@
                                         ((i + 1) :>
                                          CheckpointRows(i + 1, preds, raws))
                                    ELSE checkpoints
                     /\ faults' = Append(faults,
                            [record |-> i + 1, predict |-> outcome.kind,
                             outer |-> IF raised THEN "checkpoint"
                                       ELSE "none"])
    /\ i' = i + 1
    /\ UNCHANGED <<pc, files, args, env, shuffle, examples_df, test_df,
                   model_loaded, results, main_error, exit_status, arg, ret>>

\* return predictions, raw_outputs
BatchReturn ==
    /\ pc = "batch_predict"
    /\ i = Len(test_df)
    /\ pc' = "save_results"
    /\ UNCHANGED <<files, args, env, shuffle, examples_df, test_df,
                   model_loaded, i, predictions, raw_outputs, sent, faults,
                   checkpoints, results, main_error, exit_status, arg, ret>>

(***************************************************************************)
(* save_results                                                            *)
(***************************************************************************)
\* true labels taken as 1 only when Level-1 is exactly 1
TrueLabelsExact(df) ==
    [k \in DOMAIN df |-> IF df[k].Level_1 = 1 THEN 1 ELSE 0]

\* test_df['Level-1'].apply(lambda x: 1 if x >= 1 else 0).tolist()
TrueLabels(df) == [k \in DOMAIN df |-> Binarize(df[k].Level_1)]

\* number of positions of 1..n that satisfy both label tests
Tally(y_true, y_pred, t, p) ==
    Cardinality({k \in DOMAIN y_true : y_true[k] = t /\ y_pred[k] = p})

\* sklearn accuracy_score as the exact fraction num / den
accuracy_score(y_true, y_pred) ==
    [num |-> Cardinality({k \in DOMAIN y_true : y_true[k] = y_pred[k]}),
     den |-> Len(y_true)]

\* sklearn f1_score (binary, pos_label = 1) as the exact fraction num / den;
\* 0 when there is no true or predicted positive
f1_score(y_true, y_pred) ==
    LET tp == Tally(y_true, y_pred, 1, 1)
        fp == Tally(y_true, y_pred, 0, 1)
        fn == Tally(y_true, y_pred, 1, 0)
    IN  IF 2 * tp + fp + fn = 0
        THEN [num |-> 0, den |-> 1]
        ELSE [num |-> 2 * tp, den |-> 2 * tp + fp + fn]

NoResults ==
    [saved |-> FALSE, predictions_csv |-> <<>>,
     accuracy |-> [num |-> 0, den |-> 1], f1 |-> [num |-> 0, den |-> 1]]

\* results_df: the test set with the Predicted and Model_Output columns
ResultRows ==
    [k \in DOMAIN test_df |->
        [idx |-> test_df[k].idx, Comment |-> test_df[k].Comment,
         Level_1 |-> test_df[k].Level_1,
         Cleaned_Comment |-> test_df[k].Cleaned_Comment,
         Predicted |-> predictions[k],
         Model_Output |-> UpTo(raw_outputs[k], TruncateLen)]]

\* Assigning a column of another length raises ValueError.  What the
\* report and the plots do with an empty test set is left to the libraries:
\* either outcome is allowed.
SaveResults ==
    /\ pc = "save_results"
    /\ \E report_ok \in (IF Len(test_df) = 0 THEN BOOLEAN ELSE {TRUE}) :
          IF Len(predictions) # Len(test_df)
             \/ Len(raw_outputs) # Len(test_df)
             \/ ~report_ok
          THEN /\ main_error' = "ValueError"
               /\ pc' = "except"
               /\ UNCHANGED results
          ELSE /\ results' =
                      [saved |-> TRUE,
                       predictions_csv |-> ResultRows,
                       accuracy |-> accuracy_score(TrueLabels(test_df),
                                                   predictions),
                       f1 |-> f1_score(TrueLabels(test_df), predictions)]
               /\ pc' = "summary"
               /\ UNCHANGED main_error
    /\ UNCHANGED <<files, args, env, shuffle, examples_df, test_df,
                   model_loaded, i, predictions, raw_outputs, sent, faults,
                   checkpoints, exit_status, arg, ret>>

(***************************************************************************)
(* main                                                                    *)
(***************************************************************************)
\* the final summary is logged and main returns
MainSummary ==
    /\ pc = "summary"
    /\ exit_status' = 0
    /\ pc' = "exited"
    /\ UNCHANGED <<files, args, env, shuffle, examples_df, test_df,
                   model_loaded, i, predictions, raw_outputs, sent, faults,
                   checkpoints, results, main_error, arg, ret>>

\* except Exception as e: log with the trace, sys.exit(1)
MainExcept ==
    /\ pc = "except"
    /\ exit_status' = 1
    /\ pc' = "exited"
    /\ UNCHANGED <<files, args, env, shuffle, examples_df, test_df,
                   model_loaded, i, predictions, raw_outputs, sent, faults,
                   checkpoints, results, main_error, arg, ret>>

(***************************************************************************)
(* Inputs of a run and the specification of main()                         *)
(***************************************************************************)
DEFAULT_RANDOM_SEED == 42

DEFAULT_MAX_LENGTH == 4096

\* default of --checkpoint_interval
DefaultCheckpointInterval == 10

Row(c, l) == [Comment |-> c, Level_1 |-> l]

\* all orders of n rows
Perms(n) == {f \in [1..n -> 1..n] : \A a, b \in 1..n : f[a] = f[b] => a = b}

CommentOk == <<"O","k","!">>

CommentBad == <<"b","a","d">>

CommentBadPadded == <<" ","b","a","d"," ">>

CommentNo == <<"n","o">>

CommentUrl == <<"h","t","t","p","x"," ","1">>

CommentUp == <<"U","P">>

ExampleFiles ==
    { <<Row(CommentOk, 0), Row(CommentBad, 1)>> }

TestFiles ==
    { <<Row(CommentNo, 0)>>,
      <<Row(CommentNo, 2), Row(CommentBadPadded, 1), Row(CommentUrl, 0)>>,
      <<Row(CommentUrl, 1), Row(CommentNo, 0), Row(CommentUp, 3)>> }

Intervals == (-1)..MaxInterval

NotStarted ==
    /\ examples_df = <<>>
    /\ test_df = <<>>
    /\ model_loaded = FALSE
    /\ i = 0
    /\ predictions = <<>>
    /\ raw_outputs = <<>>
    /\ sent = <<>>
    /\ faults = <<>>
    /\ checkpoints = <<>>
    /\ results = NoResults
    /\ main_error = ""
    /\ exit_status = -1

\* a run against the real model, with any of the input files missing
InitReal ==
    /\ pc = "load_datasets"
    /\ env = "real"
    /\ \E ef \in ExampleFiles, tf \in TestFiles,
          ee \in BOOLEAN, te \in BOOLEAN :
          files = [examples |-> [exists |-> ee,
                                 rows |-> IF ee THEN ef ELSE <<>>],
                   test |-> [exists |-> te,
                             rows |-> IF te THEN tf ELSE <<>>]]
    /\ args \in [test_limit : {{}, {2}},
                 checkpoint_interval : Intervals,
                 random_seed : {DEFAULT_RANDOM_SEED},
                 max_length : {DEFAULT_MAX_LENGTH}]
    /\ shuffle \in [{args.random_seed} -> Perms(Len(files.examples.rows))]
    /\ NotStarted
    /\ arg = <<>>
    /\ ret = <<>>

\* the end-to-end test: two examples, one of each class, four test rows
\* that overlap no example, the stub Model Runner and default arguments
StubLevels == {0, 2}

InitStub ==
    /\ pc = "load_datasets"
    /\ env = "stub"
    /\ \E pos \in {1, 2}, l1, l2, l3, l4 \in StubLevels :
          files = [examples |->
                      [exists |-> TRUE,
                       rows |-> <<Row(CommentOk, 0), Row(CommentBad, pos)>>],
                   test |->
                      [exists |-> TRUE,
                       rows |-> <<Row(CommentNo, l1), Row(CommentUrl, l2),
                                  Row(CommentUp, l3), Row(HTTP, l4)>>]]
    /\ args \in [test_limit : {{}},
                 checkpoint_interval : {DefaultCheckpointInterval},
                 random_seed : {DEFAULT_RANDOM_SEED},
                 max_length : {DEFAULT_MAX_LENGTH}]
    /\ shuffle \in [{args.random_seed} -> Perms(Len(files.examples.rows))]
    /\ NotStarted
    /\ arg = <<>>
    /\ ret = <<>>

Init == InitReal \/ InitStub

Next ==
    \/ LoadDatasets
    \/ SetupModel
    \/ BatchStep
    \/ BatchReturn
    \/ SaveResults
    \/ MainSummary
    \/ MainExcept

Spec == Init /\ [][Next]_vars

(***************************************************************************)
(* clean_text applied twice to one input                                   *)
(***************************************************************************)
IdleMain ==
    /\ files = [examples |-> [exists |-> FALSE, rows |-> <<>>],
                test |-> [exists |-> FALSE, rows |-> <<>>]]
    /\ args = [test_limit |-> {},
               checkpoint_interval |-> DefaultCheckpointInterval,
               random_seed |-> DEFAULT_RANDOM_SEED,
               max_length |-> DEFAULT_MAX_LENGTH]
    /\ env = "real"
    /\ NotStarted

\* every string over the alphabet of at most n characters
StringsUpTo(alphabet, n) == UNION {[1..m -> alphabet] : m \in 0..n}

CleanAlphabet == {"h", "t", "p", "T", "!", " "}

InitClean ==
    /\ pc = "clean_text"
    /\ arg \in StringsUpTo(CleanAlphabet, MaxCleanLen)
    /\ ret = <<>>
    /\ shuffle = <<>>
    /\ IdleMain

CleanOnce ==
    /\ pc = "clean_text"
    /\ ret' = <<clean_text(arg)>>
    /\ pc' = "clean_again"
    /\ UNCHANGED <<files, args, env, shuffle, examples_df, test_df,
                   model_loaded, i, predictions, raw_outputs, sent, faults,
                   checkpoints, results, main_error, exit_status, arg>>

CleanAgain ==
    /\ pc = "clean_again"
    /\ ret' = Append(ret, clean_text(ret[1]))
    /\ pc' = "cleaned"
    /\ UNCHANGED <<files, args, env, shuffle, examples_df, test_df,
                   model_loaded, i, predictions, raw_outputs, sent, faults,
                   checkpoints, results, main_error, exit_status, arg>>

NextClean == CleanOnce \/ CleanAgain

SpecClean == InitClean /\ [][NextClean]_vars

(***************************************************************************)
(* predict_with_model on one decoded output                                *)
(***************************************************************************)
ParsePrompts == { <<"Q", ":">>, <<"1">> }

Padding ==
    <<".",".",".",".",".",".",".",".",".",".",".",".",".",".",".",".",".",
      ".",".",".",".",".",".",".",".",".",".",".",".",".",".",".",".",".",
      ".",".",".",".",".",".",".",".",".",".",".",".",".",".",".">>

ParseFragments ==
    { <<"1">>, <<"0">>, <<" ">>, <<"x">>, <<"Q", ":">>,
      <<"B","i","a","s">>, NoBiasWord, NonRegionalWord, Padding }

RECURSIVE Joined(_)
Joined(n) ==
    IF n = 0 THEN {<<>>}
    ELSE {s \o f : s \in Joined(n - 1), f \in ParseFragments}

DecodedOutputs == UNION {Joined(n) : n \in 0..MaxFragments}

InitParse ==
    /\ pc = "predict_with_model"
    /\ arg \in [prompt : ParsePrompts, full_output : DecodedOutputs]
    /\ ret = <<>>
    /\ shuffle = <<>>
    /\ IdleMain

ParseOutput ==
    /\ pc = "predict_with_model"
    /\ ret' = [generated_text |->
                   ExtractGenerated(arg.prompt, arg.full_output),
               returned |->
                   predict_with_model(arg.prompt,
                       [kind |-> "ok", full_output |-> arg.full_output])]
    /\ pc' = "returned"
    /\ UNCHANGED <<files, args, env, shuffle, examples_df, test_df,
                   model_loaded, i, predictions, raw_outputs, sent, faults,
                   checkpoints, results, main_error, exit_status, arg>>

NextParse == ParseOutput

SpecParse == InitParse /\ [][NextParse]_vars

(***************************************************************************)
(* load_datasets on small files with padded and repeated comments          *)
(***************************************************************************)
LoadComments == { <<"a">>, <<" ", "a">>, <<"a", " ">>, <<"b">> }

LoadExampleRows == {Row(c, 1) : c \in LoadComments}

LoadTestRows == {Row(c, 0) : c \in LoadComments}

InitLoad ==
    /\ pc = "load_datasets"
    /\ \E ex \in UNION {[1..m -> LoadExampleRows] : m \in 0..MaxLoadRows},
          te \in UNION {[1..m -> LoadTestRows] : m \in 0..(MaxLoadRows + 1)} :
          files = [examples |-> [exists |-> TRUE, rows |-> ex],
                   test |-> [exists |-> TRUE, rows |-> te]]
    /\ args \in [test_limit : {{}, {0}, {1}, {2}},
                 checkpoint_interval : {DefaultCheckpointInterval},
                 random_seed : {DEFAULT_RANDOM_SEED},
                 max_length : {DEFAULT_MAX_LENGTH}]
    /\ env = "real"
    /\ shuffle = <<>>
    /\ NotStarted
    /\ arg = <<>>
    /\ ret = <<>>

NextLoad == LoadDatasets

SpecLoad == InitLoad /\ [][NextLoad]_vars

(***************************************************************************)
(* create_few_shot_prompt with two seeds                                   *)
(***************************************************************************)
Seeds == {7, DEFAULT_RANDOM_SEED}

PromptRows ==
    {[idx |-> 0, Comment |-> c, Level_1 |-> l,
      Cleaned_Comment |-> clean_text(c)] :
        c \in {CommentOk, CommentBad}, l \in {0, 2}}

InitPrompt ==
    /\ pc = "create_few_shot_prompt"
    /\ examples_df \in UNION {[1..m -> PromptRows] : m \in 1..MaxPromptExamples}
    /\ shuffle \in [Seeds -> Perms(Len(examples_df))]
    /\ arg \in [comment : {CommentNo}, seed_a : Seeds, seed_b : Seeds]
    /\ ret = <<>>
    /\ files = [examples |-> [exists |-> FALSE, rows |-> <<>>],
                test |-> [exists |-> FALSE, rows |-> <<>>]]
    /\ args = [test_limit |-> {},
               checkpoint_interval |-> DefaultCheckpointInterval,
               random_seed |-> DEFAULT_RANDOM_SEED,
               max_length |-> DEFAULT_MAX_LENGTH]
    /\ env = "real"
    /\ test_df = <<>>
    /\ model_loaded = FALSE
    /\ i = 0
    /\ predictions = <<>>
    /\ raw_outputs = <<>>
    /\ sent = <<>>
    /\ faults = <<>>
    /\ checkpoints = <<>>
    /\ results = NoResults
    /\ main_error = ""
    /\ exit_status = -1

BuildPrompts ==
    /\ pc = "create_few_shot_prompt"
    /\ ret' = <<create_few_shot_prompt(examples_df, arg.comment, arg.seed_a),
                create_few_shot_prompt(examples_df, arg.comment, arg.seed_b)>>
    /\ pc' = "built"
    /\ UNCHANGED <<files, args, env, shuffle, examples_df, test_df,
                   model_loaded, i, predictions, raw_outputs, sent, faults,
                   checkpoints, results, main_error, exit_status, arg>>

NextPrompt == BuildPrompts

SpecPrompt == InitPrompt /\ [][NextPrompt]_vars

(***************************************************************************)
(* Properties                                                              *)
(***************************************************************************)
BatchOver == pc \in {"save_results", "summary", "except", "exited"}
                /\ model_loaded

\* C1: for N >= 1 records, an interval k >= 1 and any pattern of record
\* failures (prompt, tokenizer, generation), when batch_predict returns a
\* checkpoint has been written at every record count that is a multiple of
\* k and at record count N, and the checkpoint at count c holds c rows.
CheckpointAtEveryInterval ==
    (/\ BatchOver
     /\ Len(test_df) >= 1
     /\ args.checkpoint_interval >= 1
     /\ \A q \in DOMAIN faults : faults[q].outer # "checkpoint")
    => \A c \in 1..Len(test_df) :
          (c % args.checkpoint_interval = 0 \/ c = Len(test_df))
          => /\ c \in DOMAIN checkpoints
             /\ Len(checkpoints[c]) = c

\* the record taken by the step failed in the tokenizer or in generation
RecordFailed(f) == f.predict = "error" \/ f.outer = "before_predict"

\* C2: a record whose tokenization or generation raises gets predicted
\* label 0 with the error text as raw output, the loop goes on with the
\* next record, and batch_predict returns only after the last record.
FailedRecordScoredZero ==
    /\ [][(pc = "batch_predict" /\ i' = i + 1 /\ RecordFailed(faults'[i']))
          => /\ predictions'[Len(predictions) + 1] = 0
             /\ raw_outputs'[Len(raw_outputs) + 1]
                    \in {ErrorPrefix \o TokenizerMessage,
                         ErrorPrefix \o GenerateMessage}
             /\ pc' = "batch_predict"]_vars
    /\ [](BatchOver => i = Len(test_df) /\ Len(faults) = Len(test_df))

FailedRecordThenNext ==
    /\ BatchOver
    /\ \E q \in DOMAIN faults :
          /\ RecordFailed(faults[q])
          /\ q < Len(faults)
          /\ faults[q + 1].predict = "ok"

\* C3: after every iteration of batch_predict the predictions list and the
\* raw-outputs list hold exactly one entry per processed record.
OneEntryPerRecord ==
    model_loaded => Len(predictions) = i /\ Len(raw_outputs) = i

\* the first-match rule list of the Response Parser
RuleListLabel(continuation, full_output) ==
    LET tail == Lower(LastChars(full_output, 50))
        has(w) == Contains(tail, w)
        rules ==
            << <<StartsWith(continuation, <<"1">>), 1>>,
               <<StartsWith(continuation, <<"0">>), 0>>,
               <<has(<<"1">>) /\ ~has(<<"0">>), 1>>,
               <<has(<<"0">>) /\ ~has(<<"1">>), 0>>,
               <<has(<<"b","i","a","s">>), 1>>,
               <<has(<<"n","o","n","-","r","e","g","i","o","n","a","l">>)
                    \/ has(<<"n","o"," ","b","i","a","s">>), 0>>,
               <<TRUE, 0>> >>
        first == CHOOSE k \in DOMAIN rules :
                    rules[k][1] /\ \A j \in 1..(k - 1) : ~rules[j][1]
    IN  rules[first][2]

\* C4: the label returned by predict_with_model is the result of the
\* ordered first-match rule list on the continuation and the full output,
\* and it is 0 or 1.
ParserFollowsRuleList ==
    pc = "returned"
    => /\ ret.returned.prediction =
              RuleListLabel(ret.generated_text, arg.full_output)
       /\ ret.returned.prediction \in {0, 1}

\* a digit before the last 50 characters is ignored and "Bias" decides
ParserWordRuleDecides ==
    /\ pc = "returned"
    /\ ~StartsWith(ret.generated_text, <<"1">>)
    /\ ~StartsWith(ret.generated_text, <<"0">>)
    /\ Len(arg.full_output) > LastPartLen
    /\ Contains(arg.full_output, <<"1">>)
    /\ ~Contains(LastChars(arg.full_output, LastPartLen), <<"1">>)
    /\ ~Contains(LastChars(arg.full_output, LastPartLen), <<"0">>)
    /\ Contains(LastChars(arg.full_output, LastPartLen), <<"B","i","a","s">>)
    /\ ret.returned.prediction = 1

\* the stripped comments of the rows of the examples file
StrippedExamples ==
    {Strip(files.examples.rows[k].Comment) : k \in DOMAIN files.examples.rows}

\* positions of the test file whose stripped comment matches no example
Fresh ==
    {j \in DOMAIN files.test.rows :
        Strip(files.test.rows[j].Comment) \notin StrippedExamples}

\* C5: the test set returned by load_datasets holds no row whose stripped
\* Comment is the stripped Comment of an example, its rows are rows of the
\* input in their original order, and every input row that matches no
\* example is there, up to the test_limit truncation of the tail.
LoaderKeepsExactlyFreshRows ==
    pc = "setup_model"
    => /\ \A k \in DOMAIN test_df :
             /\ Strip(test_df[k].Comment) \notin StrippedExamples
             /\ test_df[k].idx + 1 \in DOMAIN files.test.rows
             /\ test_df[k].Comment =
                    files.test.rows[test_df[k].idx + 1].Comment
             /\ test_df[k].Level_1 =
                    files.test.rows[test_df[k].idx + 1].Level_1
       /\ \A k \in 1..(Len(test_df) - 1) :
             test_df[k].idx < test_df[k + 1].idx
       /\ \A j \in Fresh :
             \/ \E k \in DOMAIN test_df : test_df[k].idx = j - 1
             \/ /\ \E n \in args.test_limit : n > 0 /\ Len(test_df) = n
                /\ \A k \in DOMAIN test_df : test_df[k].idx < j - 1

\* a padded duplicate of an example was dropped between two kept rows
LoaderDroppedPaddedRow ==
    /\ pc = "setup_model"
    /\ Len(test_df) = 2
    /\ test_df[1].idx = 0
    /\ test_df[2].idx = 2
    /\ files.test.rows[2].Comment \notin
           {files.examples.rows[k].Comment : k \in DOMAIN files.examples.rows}

\* C6: clean_text is idempotent.
CleanTextIdempotent ==
    pc = "cleaned" => ret[2] = ret[1]

\* number of test rows of the file with Level-1 >= 1
PositiveRows ==
    Cardinality({k \in DOMAIN files.test.rows :
                    files.test.rows[k].Level_1 >= 1})

\* C7: end to end with the stub Model Runner, two examples and four test
\* rows: the four predictions are 1, the run ends normally, the accuracy is
\* (rows with Level-1 >= 1) / 4 and the F1 score is the binary F1 of these
\* predictions, 2 * positives / (positives + 4).
StubRunAllOnes ==
    env = "stub"
    => /\ (pc \in {"save_results", "summary", "exited"}
           => predictions = <<1, 1, 1, 1>>)
       /\ pc # "except"
       /\ (pc \in {"summary", "exited"}
           => /\ results.saved
              /\ results.accuracy.den > 0
              /\ results.accuracy.num * 4 = PositiveRows * results.accuracy.den
              /\ results.f1.den > 0
              /\ results.f1.num * (PositiveRows + 4)
                    = 2 * PositiveRows * results.f1.den)
       /\ (pc = "exited" => exit_status = 0)

StubRunFinished ==
    /\ env = "stub"
    /\ pc = "exited"
    /\ exit_status = 0
    /\ PositiveRows = 2
    /\ Len(predictions) = 4

\* C8: with the examples file or the test file missing, load_datasets
\* raises FileNotFoundError before reading anything and the run ends with
\* status 1, with no model loaded, no record processed and no checkpoint
\* or result written.
MissingFileStopsRun ==
    (~files.examples.exists \/ ~files.test.exists)
    => /\ pc \in {"load_datasets", "except", "exited"}
       /\ (pc # "load_datasets" => main_error = "FileNotFoundError")
       /\ (pc = "exited" => exit_status = 1)
       /\ examples_df = <<>>
       /\ test_df = <<>>
       /\ ~model_loaded
       /\ i = 0
       /\ predictions = <<>>
       /\ sent = <<>>
       /\ checkpoints = <<>>
       /\ results = NoResults

MissingTestFileExit ==
    /\ pc = "exited"
    /\ exit_status = 1
    /\ files.examples.exists
    /\ ~files.test.exists

\* C9: once the datasets and the model are loaded, no failure met while
\* the test records are processed makes the run exit non-zero.
RecordFailuresNeverFatal ==
    (pc = "exited" /\ model_loaded /\ Len(test_df) >= 1) => exit_status = 0

\* the parts of a built prompt
HeaderLen == Len(InstructionHeader \o PromptExamples)

TargetLen == Len(TargetOpen) + Len(arg.comment) + Len(TargetClose)

HeaderOf(p) == SubSeq(p, 1, HeaderLen)

TargetOf(p) == LastChars(p, TargetLen)

PairsOf(p) == SubSeq(p, HeaderLen + 1, Len(p) - TargetLen)

\* the Comment / Classification line pair of one example
PairText(row) ==
    CommentOpen \o row.Cleaned_Comment \o <<"\"", "\n">>
        \o ClassificationLabel
        \o (IF row.Level_1 >= 1 THEN <<"1">> ELSE <<"0">>)
        \o <<"\n", "\n">>

RECURSIVE PairsInOrder(_, _)
PairsInOrder(order, k) ==
    IF k > Len(order) THEN <<>>
    ELSE PairText(examples_df[order[k]]) \o PairsInOrder(order, k + 1)

\* p lists every example exactly once, in some order
ListsEveryExampleOnce(p) ==
    \E order \in Perms(Len(examples_df)) : PairsOf(p) = PairsInOrder(order, 1)

SameButForOrder ==
    /\ HeaderOf(ret[1]) = HeaderOf(ret[2])
    /\ HeaderOf(ret[1]) = InstructionHeader \o PromptExamples
    /\ TargetOf(ret[1]) = TargetOf(ret[2])
    /\ TargetOf(ret[1]) = TargetOpen \o arg.comment \o TargetClose
    /\ ListsEveryExampleOnce(ret[1])
    /\ ListsEveryExampleOnce(ret[2])

\* C10 as stated: two different seeds give the same header, the same
\* target block and the same example pairs in a different order; the same
\* seed gives the same prompt.
SeedsGiveDifferentOrder ==
    pc = "built"
    => /\ SameButForOrder
       /\ (arg.seed_a # arg.seed_b => PairsOf(ret[1]) # PairsOf(ret[2]))
       /\ (arg.seed_a = arg.seed_b => ret[1] = ret[2])

\* C10 amended: two seeds give the same header, the same target block and
\* the same example pairs, each example once, in orders that may coincide;
\* the same seed gives the same prompt.
SeedsChangeOnlyOrder ==
    pc = "built"
    => /\ SameButForOrder
       /\ (arg.seed_a = arg.seed_b => ret[1] = ret[2])

TwoSeedsTwoOrders ==
    /\ pc = "built"
    /\ arg.seed_a # arg.seed_b
    /\ Len(examples_df) = 2
    /\ examples_df[1] # examples_df[2]
    /\ ret[1] # ret[2]

\* the full few-shot prompt of a comment: header, every example once in
\* some order, target block
IsFullPrompt(p, comment) ==
    \E order \in Perms(Len(examples_df)) :
        p = InstructionHeader \o PromptExamples \o PairsInOrder(order, 1)
                \o TargetOpen \o comment \o TargetClose

\* the simplified template of a comment, which has no example line
IsSimplifiedPrompt(p, comment) ==
    /\ p = InstructionHeader \o SimplifiedNote \o SimplifiedOpen
               \o comment \o TargetClose
    /\ ~Contains(p, CommentOpen)
    /\ ~Contains(p, ClassificationLabel)

\* C11: the prompt passed to predict_with_model for a record is the full
\* few-shot prompt with all examples exactly when its token count is at
\* most max_length, and the simplified template without example lines
\* exactly when the count exceeds max_length; nothing else is ever sent.
PromptIsAllOrNothing ==
    \A k \in DOMAIN sent :
        LET comment == test_df[sent[k].record].Cleaned_Comment
        IN  IF sent[k].tokens <= args.max_length
            THEN IsFullPrompt(sent[k].prompt, comment)
            ELSE IsSimplifiedPrompt(sent[k].prompt, comment)

BothTemplatesSent ==
    /\ Len(examples_df) = 2
    /\ \E a, b \in DOMAIN sent :
          /\ sent[a].tokens <= args.max_length
          /\ sent[b].tokens > args.max_length
          /\ Len(sent[a].prompt) > Len(sent[b].prompt)

\* the entries that a step appended to a list
Appended(old, new) == SubSeq(new, Len(old) + 1, Len(new))

\* how many of the entries are error texts
ErrorTexts(raws) ==
    Cardinality({k \in DOMAIN raws : StartsWith(raws[k], ErrorPrefix)})

\* how many exceptions the log entry of a record reports
Failures(f) ==
    (IF f.predict = "error" THEN 1 ELSE 0)
        + (IF f.outer # "none" THEN 1 ELSE 0)

OutputTail == Lower(LastChars(arg.full_output, 50))

\* rules 1 to 3 do not decide: no leading digit in the continuation, and
\* neither or both of the digits in the tail
DigitsUndecided ==
    /\ ~StartsWith(ret.generated_text, <<"1">>)
    /\ ~StartsWith(ret.generated_text, <<"0">>)
    /\ Contains(OutputTail, <<"1">>) <=> Contains(OutputTail, <<"0">>)

\* C13: when rules 1 to 3 do not decide, label 0 is returned only if the
\* tail does not contain "bias"; a tail with "no bias" or "non-regional
\* bias" is labelled 1, and the label is the same as without the "no bias"
\* alternative: 1 with "bias" in the tail, 0 without.
BiasWordWinsOverNegation ==
    (pc = "returned" /\ DigitsUndecided)
    => /\ (ret.returned.prediction = 0
           => ~Contains(OutputTail, <<"b","i","a","s">>))
       /\ (Contains(OutputTail, <<"n","o"," ","b","i","a","s">>)
           => ret.returned.prediction = 1)
       /\ (Contains(OutputTail,
                    <<"n","o","n","-","r","e","g","i","o","n","a","l",
                      " ","b","i","a","s">>)
           => ret.returned.prediction = 1)
       /\ ret.returned.prediction =
              (IF Contains(OutputTail, <<"b","i","a","s">>) THEN 1 ELSE 0)

NegatedBiasLabelledOne ==
    /\ pc = "returned"
    /\ DigitsUndecided
    /\ Contains(OutputTail, <<"n","o"," ","b","i","a","s">>)
    /\ ~Contains(OutputTail,
                 <<"n","o","n","-","r","e","g","i","o","n","a","l">>)
    /\ ret.returned.prediction = 1

====
